---- MODULE Spec2Model ----
(***************************************************************************)
(* Ask My Docs: the incremental ingestion pipeline of ingest.py            *)
(* (state store, two-tier extraction, chunker, embed / dedup / add loop,   *)
(* watchdog handler) and the query side of rag_pipeline.py                 *)
(* (retrieve_context, truncate_context, ask_my_docs) as state machines.    *)
(*                                                                         *)
(* Texts are sequences of one-character strings.  A vector is not          *)
(* modelled beyond "the embedding call returned one" / "returned None".    *)
(* The wall-clock "timestamp" metadata field (time.time()) is left out of  *)
(* the index records: no code path reads it.                               *)
(***************************************************************************)
EXTENDS Integers, Sequences, FiniteSets, TLC

\* ------------------------------------------------------------------ bounds

\* Largest modification timestamp the environment gives a file.
MaxMtime == 2
\* Longest text handed to the chunker in the chunker specification.
MaxLen == 5
\* Largest chunk_size tried in the chunker specification.
MaxSize == 3
\* Most chunks handed to truncate_context in the truncation specification.
MaxChunks == 2
\* Longest chunk handed to truncate_context in the truncation specification.
MaxChunkLen == 2
\* Largest max_chars tried in the truncation specification.
MaxChars == 5

\* --------------------------------------------------------------- constants

CHUNK_SIZE == 800
CHUNK_OVERLAP == 100
\* rag_pipeline.py
TOP_K == 4
MAX_CONTEXT_CHARS == 4000

\* The PDF files of the watched folder (a file's stem names it).
Docs == {"a", "b"}
\* The processes running ingest.py (one observer thread each).
Procs == {"w1", "w2"}
\* Characters str.strip() removes.
Whitespace == {" ", "\n"}
\* Characters of the texts tried in the chunker specification.
Alphabet == {"a", " "}

VARIABLES
    fs,          \* docs/: per file, whether it exists, its st_mtime, its content
    ocrFile,     \* the temp folder: per stem, the content ocr_{stem}.pdf renders
    stateFile,   \* db/ingest_state.json: valid JSON or not, and the mapping
    collection,  \* the ChromaDB collection: id -> record
    pc,          \* per process: where its handler is
    doc,         \* per process: pdf_path
    state,       \* per process: the local `state` dict
    mtime,       \* per process: the local `mtime`
    readable,    \* per process: which file readable_pdf names
    text,        \* per process: the local `text` (of run_ocr_if_needed, then of the caller)
    chunks,      \* per process: the local `chunks`
    idx,         \* per process: the loop index i
    found,       \* per process: whether `existing` held the id (the last get)
    called,      \* history: capabilities the running invocation has called
    failed,      \* history: chunk indices whose embedding failed in this invocation
    added,       \* history: ids this invocation inserted into the collection
    lastCall,    \* history: per process, the last embed / add call it issued
    prev,        \* history: the last call (returned, or cut off in the chunks), file unchanged since
    rep,         \* history: per process, what the call it repeats returned
    dirty,       \* history: per process, its file was written during the call
    committed,   \* history: the mapping of the last save_state that completed
    atStart,     \* history: per process, the collection and state store when its call began
    chunker,     \* the chunker specification: the loop state of one chunk_text call
    truncator,   \* the truncation specification: the loop state of one truncate_context call
    rag          \* the query specification: ask_my_docs of rag_pipeline.py and what it calls

vars == <<fs, ocrFile, stateFile, collection, pc, doc, state, mtime, readable, text,
          chunks, idx, found, called, failed, added, lastCall, prev, rep, dirty,
          committed, atStart, chunker, truncator, rag>>

ingestVars == <<fs, ocrFile, stateFile, collection, pc, doc, state, mtime, readable,
                text, chunks, idx, found, called, failed, added, lastCall, prev, rep,
                dirty, committed, atStart>>

\* ----------------------------------------------------------------- helpers

Min(a, b) == IF a <= b THEN a ELSE b

EmptyMap == [x \in {} |-> 0]

\* dict.get(key, default)
Get(m, k, default) == IF k \in DOMAIN m THEN m[k] ELSE default

\* dict[key] = value
Put(m, k, v) == [x \in DOMAIN m \cup {k} |-> IF x = k THEN v ELSE m[x]]

\* str.lstrip() / str.rstrip()
RECURSIVE LStrip(_)
LStrip(s) ==
    IF s # <<>> /\ Head(s) \in Whitespace THEN LStrip(Tail(s)) ELSE s

RECURSIVE RStrip(_)
RStrip(s) ==
    IF s # <<>> /\ s[Len(s)] \in Whitespace
    THEN RStrip(SubSeq(s, 1, Len(s) - 1)) ELSE s

\* str.strip(): drop leading and trailing whitespace.
Strip(s) == RStrip(LStrip(s))

Max(a, b) == IF a >= b THEN a ELSE b

\* How a slice bound k is read on a sequence of length n: a negative bound
\* counts from the end, and every bound is clamped to 0..n.
SliceBound(k, n) == IF k < 0 THEN Max(n + k, 0) ELSE Min(k, n)

\* text[start:end]
Slice(s, start, end) ==
    SubSeq(s, SliceBound(start, Len(s)) + 1, SliceBound(end, Len(s)))

Rep(c, n) == [k \in 1..n |-> c]

\* ----------------------------------------------------------------- chunker

\* ChunkStep with the cursor set back from the window's end
\* (start = end - overlap) instead of advanced by a fixed step.
ChunkStepFromEnd(s) ==
    LET end   == Min(s.start + s.size, Len(s.text))
        chunk == Strip(Slice(s.text, s.start, end))
    IN  [s EXCEPT !.chunks = IF chunk # <<>> THEN Append(@, chunk) ELSE @,
                  !.spans  = Append(@, <<s.start, end>>),
                  !.start  = end - s.overlap]

\* ChunkStep with the overlap forgotten in the advance (start += chunk_size).
ChunkStepNoOverlap(s) ==
    LET end   == Min(s.start + s.size, Len(s.text))
        chunk == Strip(Slice(s.text, s.start, end))
    IN  [s EXCEPT !.chunks = IF chunk # <<>> THEN Append(@, chunk) ELSE @,
                  !.spans  = Append(@, <<s.start, end>>),
                  !.start  = @ + s.size]

\* The loop body advancing by chunk_size + overlap (the sign of the overlap
\* mistaken): characters between two windows are passed over.
ChunkStepGap(s) ==
    LET end   == Min(s.start + s.size, Len(s.text))
        chunk == Strip(Slice(s.text, s.start, end))
    IN  [s EXCEPT !.chunks = IF chunk # <<>> THEN Append(@, chunk) ELSE @,
                  !.spans  = Append(@, <<s.start, end>>),
                  !.start  = @ + (s.size + s.overlap)]

\* One iteration of the while loop of chunk_text on the loop state s
\* (spans records the source window of each iteration, before trimming).
ChunkStep(s) ==
    LET end   == Min(s.start + s.size, Len(s.text))
        chunk == Strip(Slice(s.text, s.start, end))
    IN  [s EXCEPT !.chunks = IF chunk # <<>> THEN Append(@, chunk) ELSE @,
                  !.spans  = Append(@, <<s.start, end>>),
                  !.start  = @ + (s.size - s.overlap)]

ChunkInit(txt, chunk_size, overlap) ==
    [pc |-> "call", text |-> txt, size |-> chunk_size, overlap |-> overlap,
     start |-> 0, chunks |-> <<>>, spans |-> <<>>]

RECURSIVE ChunkLoop(_)
ChunkLoop(s) == IF s.start < Len(s.text) THEN ChunkLoop(ChunkStep(s)) ELSE s

chunk_text(txt, chunk_size, overlap) ==
    ChunkLoop(ChunkInit(txt, chunk_size, overlap)).chunks

\* ------------------------------------------------------- files and contents

\* What a PDF can hold: a text layer (what PdfReader extracts) and
\* page images (what OCR can recognise).
Contents == {"digital", "scanned"}

\* The text layer of a content: 900 characters, or none.
Layer(c) == IF c = "digital" THEN Rep("a", 900) ELSE <<>>

\* The text OCR recognises on the page images of a content.
Image(c) == IF c = "scanned" THEN <<" ", "x", "y", " ">> ELSE <<>>

NoFile == [exists |-> FALSE, mtime |-> 0, content |-> "none"]

File(c, t) == [exists |-> TRUE, mtime |-> t, content |-> c]

\* Identifiers counted from 1.
DocIdFromOne(d, i) == <<d, i + 1>>

\* f"{pdf_path.stem}::chunk_{i}"
DocId(d, i) == <<d, i>>

\* extract_text_from_pdf(pdf_path) on a file of docs/: the stripped text layer,
\* or "" when PdfReader raises (ok = FALSE; always so when the file is gone).
ExtractText(f, ok) ==
    IF f.exists /\ ok THEN Strip(Layer(f.content)) ELSE <<>>

\* extract_text_from_pdf(ocr_path): the OCR rendition holds the text layer of
\* the pages that had one (skip_text) and the recognised text of the others.
ExtractRendition(c, ok) ==
    IF c # "none" /\ ok THEN Strip(Layer(c) \o Image(c)) ELSE <<>>

\* ------------------------------------------------------------ ingest: tests

\* state.get(pdf_path.name, 0) >= mtime
Stale(st, d, mt) == Get(st, d, 0) >= mt

\* OCR is run whatever the direct extraction gave.
HasTextNever(txt) == FALSE

\* `if text: return pdf_path` of run_ocr_if_needed
HasText(txt) == txt # <<>>

\* The empty-text test left out: an empty text goes on to the chunker.
NoTextNever(txt) == FALSE

\* `if not text`
NoText(txt) == txt = <<>>

\* The None test left out: a failed embedding goes on to the index.
NoEmbeddingNever(embedding) == FALSE

\* `if not embedding`
NoEmbedding(embedding) == embedding = "None"

\* The duplicate test left out: every chunk goes on to collection.add.
IsDuplicateNever(existing) == FALSE

\* `existing and existing["ids"]` for existing = collection.get(ids=[doc_id]),
\* the set of the ids found.
IsDuplicate(existing) == existing # {}

\* The loop is left after the first chunk.
ExhaustedAfterFirst(i, cs) == i >= Min(1, Len(cs))

\* `for i, chunk in enumerate(chunks)` has no chunk left.
Exhausted(i, cs) == i >= Len(cs)

\* The mapping handed to save_state holds the new timestamp alone.
RecordedAlone(st, d, mt) == Put(EmptyMap, d, mt)

\* The mapping handed to save_state with the new timestamp left out.
RecordedNothing(st, d, mt) == st

\* state[pdf_path.name] = mtime
Recorded(st, d, mt) == Put(st, d, mt)

\* embed_text(chunk): the vector, or None when client.embeddings raises.
embed_text(ok) == IF ok THEN "vec" ELSE "None"

NoCall == [op |-> "none", id |-> <<"none", 0>>, existed |-> FALSE, found |-> FALSE]

NoPrev == [doc |-> "none", outcome |-> "none"]

\* No call is running: nothing to remember of its beginning.
NoStart == [index |-> EmptyMap, state |-> EmptyMap]

\* Where ingest_single_pdf has returned: at the staleness check, at the empty
\* text, or at its end.
Returned == {"skipped", "empty", "ingested"}

\* The locals of an invocation go out of scope (and its history with them).
DropLocals(p) ==
    /\ doc' = [doc EXCEPT ![p] = "none"]
    /\ state' = [state EXCEPT ![p] = EmptyMap]
    /\ mtime' = [mtime EXCEPT ![p] = 0]
    /\ readable' = [readable EXCEPT ![p] = "orig"]
    /\ text' = [text EXCEPT ![p] = <<>>]
    /\ chunks' = [chunks EXCEPT ![p] = <<>>]
    /\ idx' = [idx EXCEPT ![p] = 0]
    /\ found' = [found EXCEPT ![p] = FALSE]
    /\ called' = [called EXCEPT ![p] = {}]
    /\ failed' = [failed EXCEPT ![p] = {}]
    /\ added' = [added EXCEPT ![p] = {}]
    /\ lastCall' = [lastCall EXCEPT ![p] = NoCall]
    /\ rep' = [rep EXCEPT ![p] = "none"]
    /\ dirty' = [dirty EXCEPT ![p] = FALSE]
    /\ atStart' = [atStart EXCEPT ![p] = NoStart]

\* ---------------------------------------------------------- ingest: actions

\* on_created / on_modified: an event for a .pdf file reaches the handler,
\* which (after its sleep) calls ingest_single_pdf.
Start(p, d) ==
    /\ pc[p] = "idle"
    /\ pc' = [pc EXCEPT ![p] = "load"]
    /\ doc' = [doc EXCEPT ![p] = d]
    /\ rep' = [rep EXCEPT ![p] = IF prev.doc = d THEN prev.outcome ELSE "none"]
    /\ prev' = NoPrev
    /\ atStart' = [atStart EXCEPT ![p] =
                     [index |-> collection, state |-> stateFile.data]]
    /\ UNCHANGED <<fs, ocrFile, stateFile, collection, state, mtime, readable, text,
                   chunks, idx, found, called, failed, added, lastCall, dirty,
                   committed, chunker, truncator, rag>>

\* state = load_state(): json.load raises on a file that is not valid JSON.
LoadState(p) ==
    /\ pc[p] = "load"
    /\ IF stateFile.valid
       THEN /\ state' = [state EXCEPT ![p] = stateFile.data]
            /\ pc' = [pc EXCEPT ![p] = "stat"]
       ELSE /\ pc' = [pc EXCEPT ![p] = "raised"]
            /\ UNCHANGED state
    /\ UNCHANGED <<fs, ocrFile, stateFile, collection, doc, mtime, readable, text,
                   chunks, idx, found, called, failed, added, lastCall, prev, rep,
                   dirty, committed, atStart,
                   chunker, truncator, rag>>

\* mtime = pdf_path.stat().st_mtime (raises when the file is gone), then the
\* staleness check.
StatAndCheck(p) ==
    /\ pc[p] = "stat"
    /\ LET f == fs[doc[p]] IN
       IF ~f.exists
       THEN /\ pc' = [pc EXCEPT ![p] = "raised"]
            /\ UNCHANGED mtime
       ELSE /\ mtime' = [mtime EXCEPT ![p] = f.mtime]
            /\ pc' = [pc EXCEPT ![p] =
                        IF Stale(state[p], doc[p], f.mtime) THEN "skipped" ELSE "ocr"]
    /\ UNCHANGED <<fs, ocrFile, stateFile, collection, doc, state, readable, text,
                   chunks, idx, found, called, failed, added, lastCall, prev, rep,
                   dirty, committed, atStart,
                   chunker, truncator, rag>>

\* readable_pdf = run_ocr_if_needed(pdf_path): OCR runs only when the direct
\* extraction gave nothing; it writes ocr_{stem}.pdf, or fails and the
\* original path is returned.
RunOcrIfNeeded(p) ==
    /\ pc[p] = "ocr"
    /\ \E okRead \in BOOLEAN, okOcr \in BOOLEAN :
         LET f     == fs[doc[p]]
             probe == ExtractText(f, okRead)
         IN  /\ text' = [text EXCEPT ![p] = probe]
             /\ IF HasText(probe)
                THEN /\ readable' = [readable EXCEPT ![p] = "orig"]
                     /\ called' = [called EXCEPT ![p] = @ \cup {"probe"}]
                     /\ UNCHANGED ocrFile
                ELSE /\ called' = [called EXCEPT ![p] = @ \cup {"probe", "ocr"}]
                     /\ IF f.exists /\ okOcr
                        THEN /\ ocrFile' = [ocrFile EXCEPT ![doc[p]] = f.content]
                             /\ readable' = [readable EXCEPT ![p] = "ocr"]
                        ELSE /\ readable' = [readable EXCEPT ![p] = "orig"]
                             /\ UNCHANGED ocrFile
    /\ pc' = [pc EXCEPT ![p] = "extract"]
    /\ UNCHANGED <<fs, stateFile, collection, doc, state, mtime, chunks, idx,
                   found, failed, added, lastCall, prev, rep, dirty, committed,
                   atStart, chunker, truncator, rag>>

\* text = extract_text_from_pdf(readable_pdf); `if not text: return`;
\* chunks = chunk_text(text).
ExtractAndChunk(p) ==
    /\ pc[p] = "extract"
    /\ \E okRead \in BOOLEAN :
         LET got == IF readable[p] = "ocr"
                    THEN ExtractRendition(ocrFile[doc[p]], okRead)
                    ELSE ExtractText(fs[doc[p]], okRead)
         IN  /\ text' = [text EXCEPT ![p] = got]
             /\ IF NoText(got)
                THEN /\ pc' = [pc EXCEPT ![p] = "empty"]
                     /\ UNCHANGED chunks
                ELSE /\ chunks' = [chunks EXCEPT ![p] =
                                     chunk_text(got, CHUNK_SIZE, CHUNK_OVERLAP)]
                     /\ pc' = [pc EXCEPT ![p] = "embed"]
    /\ called' = [called EXCEPT ![p] = @ \cup {"extract"}]
    /\ UNCHANGED <<fs, ocrFile, stateFile, collection, doc, state, mtime, readable,
                   idx, found, failed, added, lastCall, prev, rep, dirty, committed,
                   atStart,
                   chunker, truncator, rag>>

\* The head of the for loop: embedding = embed_text(chunk);
\* `if not embedding: continue`.
Embed(p) ==
    /\ pc[p] = "embed"
    /\ ~Exhausted(idx[p], chunks[p])
    /\ \E ok \in BOOLEAN :
         /\ IF NoEmbedding(embed_text(ok))
            THEN /\ idx' = [idx EXCEPT ![p] = @ + 1]
                 /\ UNCHANGED pc
            ELSE /\ pc' = [pc EXCEPT ![p] = "get"]
                 /\ UNCHANGED idx
         /\ failed' = [failed EXCEPT ![p] = IF ok THEN @ ELSE @ \cup {idx[p]}]
    /\ called' = [called EXCEPT ![p] = @ \cup {"embed"}]
    /\ lastCall' = [lastCall EXCEPT ![p] =
                      [op |-> "embed", id |-> DocId(doc[p], idx[p]),
                       existed |-> DocId(doc[p], idx[p]) \in DOMAIN collection,
                       found |-> FALSE]]
    /\ UNCHANGED <<fs, ocrFile, stateFile, collection, doc, state, mtime, readable,
                   text, chunks, found, added, prev, rep, dirty, committed, atStart,
                   chunker, truncator, rag>>

\* existing = collection.get(ids=[doc_id]) (may raise); a duplicate is skipped.
CollectionGet(p) ==
    /\ pc[p] = "get"
    /\ LET id       == DocId(doc[p], idx[p])
           existing == {id} \cap DOMAIN collection
       IN  \E ok \in BOOLEAN :
             IF ~ok
             THEN /\ pc' = [pc EXCEPT ![p] = "raised"]
                  /\ UNCHANGED <<idx, found>>
             ELSE /\ found' = [found EXCEPT ![p] = existing # {}]
                  /\ IF IsDuplicate(existing)
                     THEN /\ idx' = [idx EXCEPT ![p] = @ + 1]
                          /\ pc' = [pc EXCEPT ![p] = "embed"]
                     ELSE /\ pc' = [pc EXCEPT ![p] = "add"]
                          /\ UNCHANGED idx
    /\ called' = [called EXCEPT ![p] = @ \cup {"get"}]
    /\ UNCHANGED <<fs, ocrFile, stateFile, collection, doc, state, mtime, readable,
                   text, chunks, failed, added, lastCall, prev, rep, dirty, committed,
                   atStart,
                   chunker, truncator, rag>>

\* collection.add(ids=[doc_id], ...) (may raise).  ChromaDB leaves the stored
\* record alone when the id is already there.
CollectionAdd(p) ==
    /\ pc[p] = "add"
    /\ LET id == DocId(doc[p], idx[p]) IN
       /\ \E ok \in BOOLEAN :
            IF ~ok
            THEN /\ pc' = [pc EXCEPT ![p] = "raised"]
                 /\ UNCHANGED <<collection, idx, added>>
            ELSE /\ IF id \in DOMAIN collection
                    THEN UNCHANGED <<collection, added>>
                    ELSE /\ collection' =
                              Put(collection, id,
                                  [document |-> chunks[p][idx[p] + 1],
                                   filename |-> doc[p], chunk_index |-> idx[p]])
                         /\ added' = [added EXCEPT ![p] = @ \cup {id}]
                 /\ idx' = [idx EXCEPT ![p] = @ + 1]
                 /\ pc' = [pc EXCEPT ![p] = "embed"]
       /\ lastCall' = [lastCall EXCEPT ![p] =
                         [op |-> "add", id |-> id,
                          existed |-> id \in DOMAIN collection,
                          found |-> found[p]]]
    /\ called' = [called EXCEPT ![p] = @ \cup {"add"}]
    /\ UNCHANGED <<fs, ocrFile, stateFile, doc, state, mtime, readable, text, chunks,
                   found, failed, prev, rep, dirty, committed, atStart,
                   chunker, truncator, rag>>

\* The loop is over: state[pdf_path.name] = mtime, and save_state opens the
\* state file for writing, which truncates it.
SaveOpen(p) ==
    /\ pc[p] = "embed"
    /\ Exhausted(idx[p], chunks[p])
    /\ state' = [state EXCEPT ![p] = Recorded(@, doc[p], mtime[p])]
    /\ stateFile' = [valid |-> FALSE, data |-> EmptyMap]
    /\ pc' = [pc EXCEPT ![p] = "dump"]
    /\ called' = [called EXCEPT ![p] = @ \cup {"save"}]
    /\ UNCHANGED <<fs, ocrFile, collection, doc, mtime, readable, text, chunks, idx,
                   found, failed, added, lastCall, prev, rep, dirty, committed,
                   atStart,
                   chunker, truncator, rag>>

\* json.dump(state, f) and the close of the file: the whole mapping is written.
SaveDump(p) ==
    /\ pc[p] = "dump"
    /\ stateFile' = [valid |-> TRUE, data |-> state[p]]
    /\ committed' = state[p]
    /\ pc' = [pc EXCEPT ![p] = "ingested"]
    /\ UNCHANGED <<fs, ocrFile, collection, doc, state, mtime, readable, text, chunks,
                   idx, found, called, failed, added, lastCall, prev, rep, dirty,
                   atStart,
                   chunker, truncator, rag>>

\* ingest_single_pdf returns and the handler with it: the observer thread is
\* free for the next event.
Return(p) ==
    /\ pc[p] \in Returned
    /\ prev' = IF dirty[p] THEN NoPrev ELSE [doc |-> doc[p], outcome |-> pc[p]]
    /\ pc' = [pc EXCEPT ![p] = "idle"]
    /\ DropLocals(p)
    /\ UNCHANGED <<fs, ocrFile, stateFile, collection, committed, chunker, truncator, rag>>

\* The invocation of p is in the loop over the chunks, or was there when a
\* collection call raised, and has not begun to save the state.
InChunks(p) ==
    \/ pc[p] \in {"embed", "get", "add"}
    \/ pc[p] = "raised" /\ "get" \in called[p]

\* The process dies (a crash, a kill, power loss) wherever it is and is started
\* again: its locals are gone, the files and the collection are as they were.
\* This is also the only way on from "raised": the exception left the handler
\* and ended the observer thread, while the main thread sleeps on.
Restart(p) ==
    /\ pc[p] # "idle"
    /\ prev' = IF InChunks(p) /\ ~dirty[p]
               THEN [doc |-> doc[p], outcome |-> "interrupted"]
               ELSE prev
    /\ pc' = [pc EXCEPT ![p] = "idle"]
    /\ DropLocals(p)
    /\ UNCHANGED <<fs, ocrFile, stateFile, collection, committed, chunker,
                   truncator, rag>>

\* ------------------------------------------------------------- environment

\* A write to file d: it ends the run of unchanged calls on d.
Changed(d) ==
    /\ prev' = IF prev.doc = d THEN NoPrev ELSE prev
    /\ rep' = [p \in Procs |-> IF doc[p] = d THEN "none" ELSE rep[p]]
    /\ dirty' = [p \in Procs |-> dirty[p] \/ doc[p] = d]

\* A file is created, replaced or touched: any content, any timestamp.
WriteFile(d, c, t) ==
    /\ fs[d] # File(c, t)
    /\ fs' = [fs EXCEPT ![d] = File(c, t)]
    /\ Changed(d)
    /\ UNCHANGED <<ocrFile, stateFile, collection, pc, doc, state, mtime, readable,
                   text, chunks, idx, found, called, failed, added, lastCall,
                   committed, atStart,
                   chunker, truncator, rag>>

\* A file is removed from the folder.
RemoveFile(d) ==
    /\ fs[d].exists
    /\ fs' = [fs EXCEPT ![d] = NoFile]
    /\ Changed(d)
    /\ UNCHANGED <<ocrFile, stateFile, collection, pc, doc, state, mtime, readable,
                   text, chunks, idx, found, called, failed, added, lastCall,
                   committed, atStart,
                   chunker, truncator, rag>>

\* ----------------------------------------------------------- specifications

\* No truncate_context call and no ask_my_docs call is under way.
TruncatorOff == [pc |-> "off"]

RagOff == [pc |-> "off"]

ChunkerOff ==
    [pc |-> "off", text |-> <<>>, size |-> 0, overlap |-> 0, start |-> 0,
     chunks |-> <<>>, spans |-> <<>>]

\* Nothing has been ingested and every process is idle.
InitIngest ==
    /\ ocrFile = [d \in Docs |-> "none"]
    /\ stateFile = [valid |-> TRUE, data |-> EmptyMap]
    /\ collection = EmptyMap
    /\ pc = [p \in Procs |-> "idle"]
    /\ doc = [p \in Procs |-> "none"]
    /\ state = [p \in Procs |-> EmptyMap]
    /\ mtime = [p \in Procs |-> 0]
    /\ readable = [p \in Procs |-> "orig"]
    /\ text = [p \in Procs |-> <<>>]
    /\ chunks = [p \in Procs |-> <<>>]
    /\ idx = [p \in Procs |-> 0]
    /\ found = [p \in Procs |-> FALSE]
    /\ called = [p \in Procs |-> {}]
    /\ failed = [p \in Procs |-> {}]
    /\ added = [p \in Procs |-> {}]
    /\ lastCall = [p \in Procs |-> NoCall]
    /\ prev = NoPrev
    /\ rep = [p \in Procs |-> "none"]
    /\ dirty = [p \in Procs |-> FALSE]
    /\ committed = EmptyMap
    /\ atStart = [p \in Procs |-> NoStart]

\* The folder is empty, nothing has been ingested, the watcher is idle.
Init ==
    /\ fs = [d \in Docs |-> NoFile]
    /\ InitIngest
    /\ chunker = ChunkerOff
    /\ truncator = TruncatorOff
    /\ rag = RagOff

\* The observer thread of process p, with events for the files D.
Handler(p, D) ==
    \/ \E d \in D : Start(p, d)
    \/ LoadState(p)
    \/ StatAndCheck(p)
    \/ RunOcrIfNeeded(p)
    \/ ExtractAndChunk(p)
    \/ Embed(p)
    \/ CollectionGet(p)
    \/ CollectionAdd(p)
    \/ SaveOpen(p)
    \/ SaveDump(p)
    \/ Return(p)

\* The user's doing: files of the folder appear, change and go at any moment.
Environment(D) ==
    \/ \E d \in D, c \in Contents, t \in 0..MaxMtime : WriteFile(d, c, t)
    \/ \E d \in D : RemoveFile(d)

\* Single-writer operation on one document: one watcher process handles the
\* events of a PDF whose content and timestamp change freely.
Next == Environment({"a"}) \/ Handler("w1", {"a"}) \/ Restart("w1")

Spec == Init /\ [][Next]_vars

\* A folder of two PDFs, each absent or of any content and timestamp, that
\* does not change while one watcher process handles their events.
InitFolder ==
    /\ fs \in [Docs -> {NoFile} \cup {File(c, t) : c \in Contents, t \in 0..MaxMtime}]
    /\ InitIngest
    /\ chunker = ChunkerOff
    /\ truncator = TruncatorOff
    /\ rag = RagOff

NextFolder == Handler("w1", Docs) \/ Restart("w1")

SpecFolder == InitFolder /\ [][NextFolder]_vars

\* Two processes run ingest.py on the same folder, which holds one PDF and
\* does not change; neither process is killed.
InitConc ==
    /\ fs \in [Docs -> {NoFile} \cup {File(c, 1) : c \in Contents}]
    /\ fs["a"].exists /\ ~fs["b"].exists
    /\ InitIngest
    /\ chunker = ChunkerOff
    /\ truncator = TruncatorOff
    /\ rag = RagOff

NextConc == \E p \in Procs : Handler(p, {"a"})

SpecConc == InitConc /\ [][NextConc]_vars

\* Two processes run ingest.py on the same folder and state store, each on
\* its own (scanned, one-chunk) PDF; the folder does not change and neither
\* process is killed.
InitTwoDocs ==
    /\ fs = [d \in Docs |-> File("scanned", 1)]
    /\ InitIngest
    /\ chunker = ChunkerOff
    /\ truncator = TruncatorOff
    /\ rag = RagOff

NextTwoDocs == Handler("w1", {"a"}) \/ Handler("w2", {"b"})

SpecTwoDocs == InitTwoDocs /\ [][NextTwoDocs]_vars

\* Calls one at a time: one watcher process handles the events of two PDFs,
\* of which a changes freely and b, a scanned PDF, stays as it is; the
\* process is not killed.
InitSeq ==
    /\ fs = [d \in Docs |-> IF d = "b" THEN File("scanned", 1) ELSE NoFile]
    /\ InitIngest
    /\ chunker = ChunkerOff
    /\ truncator = TruncatorOff
    /\ rag = RagOff

NextSeq == Environment({"a"}) \/ Handler("w1", Docs)

SpecSeq == InitSeq /\ [][NextSeq]_vars

\* ----------------------------------------------- the chunker specification

\* Iterations after which a call that has not returned is left alone.
MaxIter == MaxLen + 2

Texts == UNION {[1..n -> Alphabet] : n \in 0..MaxLen}

\* One call chunk_text(text, chunk_size, overlap), for every text and every
\* pair of parameters with 1 <= chunk_size and 0 <= overlap <= chunk_size + 1.
InitChunk ==
    /\ fs = [d \in Docs |-> NoFile]
    /\ InitIngest
    /\ \E txt \in Texts, size \in 1..MaxSize :
         \E overlap \in 0..(size + 1) :
           chunker = [ChunkInit(txt, size, overlap) EXCEPT !.pc = "loop"]
    /\ truncator = TruncatorOff
    /\ rag = RagOff

\* `while start < len(text)`: the body runs once more.
ChunkIterate ==
    /\ chunker.pc = "loop"
    /\ chunker.start < Len(chunker.text)
    /\ Len(chunker.spans) < MaxIter
    /\ chunker' = ChunkStep(chunker)
    /\ UNCHANGED <<ingestVars, truncator, rag>>

\* The loop condition fails: `return chunks`.
ChunkReturn ==
    /\ chunker.pc = "loop"
    /\ ~(chunker.start < Len(chunker.text))
    /\ chunker' = [chunker EXCEPT !.pc = "done"]
    /\ UNCHANGED <<ingestVars, truncator, rag>>

NextChunk == ChunkIterate \/ ChunkReturn

SpecChunk == InitChunk /\ [][NextChunk]_vars /\ WF_vars(NextChunk)

\* ------------------------------------- rag_pipeline.py: truncate_context

\* The "\n\n" appended after every chunk taken.
Separator == <<"\n", "\n">>

\* The loop body with `continue` in the place of `break`: a chunk that does not
\* fit is passed over and later chunks are still taken.
TruncStepSkipping(s) ==
    LET chunk == s.chunks[s.i] IN
      IF Len(s.context) + Len(chunk) > s.max_chars
      THEN [s EXCEPT !.i = @ + 1]
      ELSE [s EXCEPT !.context = @ \o chunk \o Separator, !.i = @ + 1,
                     !.taken = @ + 1]

\* One pass of `for chunk in chunks`: break when the chunk does not fit the
\* budget, else context += chunk + "\n\n".
TruncStep(s) ==
    LET chunk == s.chunks[s.i] IN
      IF Len(s.context) + Len(chunk) > s.max_chars
      THEN [s EXCEPT !.i = Len(s.chunks) + 1]
      ELSE [s EXCEPT !.context = @ \o chunk \o Separator, !.i = @ + 1,
                     !.taken = @ + 1]

\* The call truncate_context(chunks, max_chars) at `context = ""`.
TruncInit(chunks_, max_chars) ==
    [pc |-> "loop", chunks |-> chunks_, max_chars |-> max_chars, context |-> <<>>,
     i |-> 1, taken |-> 0, result |-> <<>>]

RECURSIVE TruncLoop(_)
TruncLoop(s) == IF s.i <= Len(s.chunks) THEN TruncLoop(TruncStep(s)) ELSE s

\* truncate_context(chunks, max_chars): `return context.strip()`.
truncate_context(chunks_, max_chars) ==
    Strip(TruncLoop(TruncInit(chunks_, max_chars)).context)

\* ------------------------------------------- the truncation specification

ChunkTexts == UNION {[1..n -> Alphabet] : n \in 0..MaxChunkLen}

Ranked == UNION {[1..n -> ChunkTexts] : n \in 0..MaxChunks}

\* One call truncate_context(chunks, max_chars), for every ranked sequence of
\* chunks (trimmed or not, empty or not) and every max_chars >= 0.
InitTrunc ==
    /\ fs = [d \in Docs |-> NoFile]
    /\ InitIngest
    /\ chunker = ChunkerOff
    /\ rag = RagOff
    /\ \E cs \in Ranked, max_chars \in 0..MaxChars :
         truncator = TruncInit(cs, max_chars)

\* `for chunk in chunks`: the body runs for the next chunk.
TruncIterate ==
    /\ truncator.pc = "loop"
    /\ truncator.i <= Len(truncator.chunks)
    /\ truncator' = TruncStep(truncator)
    /\ UNCHANGED <<ingestVars, chunker, rag>>

\* The loop is left: `return context.strip()`.
TruncReturn ==
    /\ truncator.pc = "loop"
    /\ truncator.i > Len(truncator.chunks)
    /\ truncator' = [truncator EXCEPT !.pc = "done",
                                      !.result = Strip(truncator.context)]
    /\ UNCHANGED <<ingestVars, chunker, rag>>

NextTrunc == TruncIterate \/ TruncReturn

SpecTrunc == InitTrunc /\ [][NextTrunc]_vars

\* ------------------------- rag_pipeline.py: retrieve_context, ask_my_docs

\* What ingest_single_pdf stores for file d of content c when every call
\* succeeds: one record per chunk of its text.
Ingested(d, c) ==
    LET cs == chunk_text(ExtractRendition(c, TRUE), CHUNK_SIZE, CHUNK_OVERLAP) IN
      [id \in {DocId(d, i) : i \in 0..(Len(cs) - 1)} |->
         [document |-> cs[id[2] + 1], filename |-> d, chunk_index |-> id[2]]]

\* The union of two indexes over different ids.
Merge(x, y) ==
    [id \in DOMAIN x \cup DOMAIN y |-> IF id \in DOMAIN x THEN x[id] ELSE y[id]]

\* The collections the query side is tried on: empty (nothing ingested, or
\* emptied since start-up), one document, two documents (up to TOP_K entries).
Indexes ==
    {EmptyMap, Ingested("a", "scanned"), Ingested("a", "digital"),
     Merge(Ingested("a", "digital"), Ingested("b", "scanned")),
     Merge(Ingested("a", "digital"), Ingested("b", "digital"))}

\* The questions asked.
Queries == {"q1", "q2"}

\* What client.chat may answer: text with whitespace around it, blank text.
Replies == {<<" ", "y", "e", "s", "\n">>, <<"n", "o">>, <<" ">>}

\* The orders in which collection.query may rank the n = min(top_k, count)
\* nearest entries of an index.
QueryResults(index, top_k) ==
    LET n == Min(top_k, Cardinality(DOMAIN index)) IN
      {r \in [1..n -> DOMAIN index] : \A i, j \in 1..n : i # j => r[i] # r[j]}

NoRetrieval == [docs |-> <<>>, metas |-> <<>>, raised |-> FALSE]

\* retrieve_context without its except clause: the failure of the embedding
\* call or of the index query leaves the function.
RetrieveUncaught(index, okEmbed, okQuery, r) ==
    IF okEmbed /\ okQuery
    THEN [docs |-> [i \in DOMAIN r |-> index[r[i]].document],
          metas |-> [i \in DOMAIN r |->
                       [filename |-> index[r[i]].filename,
                        chunk_index |-> index[r[i]].chunk_index]],
          raised |-> FALSE]
    ELSE [NoRetrieval EXCEPT !.raised = TRUE]

\* retrieve_context(query, top_k): the texts and metadata of the ranked
\* entries r, or [], [] when client.embeddings or collection.query raised.
retrieve_context(index, okEmbed, okQuery, r) ==
    IF okEmbed /\ okQuery
    THEN [docs |-> [i \in DOMAIN r |-> index[r[i]].document],
          metas |-> [i \in DOMAIN r |->
                       [filename |-> index[r[i]].filename,
                        chunk_index |-> index[r[i]].chunk_index]],
          raised |-> FALSE]
    ELSE NoRetrieval

\* The chat call is made whatever retrieval gave.
NoDocsNever(docs) == FALSE

\* `if not docs`
NoDocs(docs) == docs = <<>>

\* The f-string of ask_my_docs: the template's text around the two fields.
Prompt(context, query) ==
    <<"You are a helpful assistant. ... Context:", context, "Question:", query,
      "Answer:">>

\* No ask_my_docs call is running.
RagIdle(index) ==
    [pc |-> "idle", index |-> index, query |-> "none", okEmbed |-> TRUE,
     okQuery |-> TRUE, docs |-> <<>>, metas |-> <<>>, raised |-> FALSE,
     context |-> <<>>, chats |-> <<>>, okChat |-> TRUE, reply |-> <<>>,
     answer |-> <<>>]

\* The read loop calls ask_my_docs(q).
Ask(q) ==
    /\ rag.pc = "idle"
    /\ rag' = [RagIdle(rag.index) EXCEPT !.pc = "retrieve", !.query = q]
    /\ UNCHANGED <<ingestVars, chunker, truncator>>

\* docs, metas = retrieve_context(query): the embedding call and the index
\* query may each raise; on an empty index the query raises or returns nothing.
Retrieve ==
    /\ rag.pc = "retrieve"
    /\ \E okEmbed \in BOOLEAN, okQuery \in BOOLEAN :
         \E r \in QueryResults(rag.index, TOP_K) :
           LET got == retrieve_context(rag.index, okEmbed, okQuery, r) IN
             rag' = [rag EXCEPT !.pc = IF got.raised THEN "raised" ELSE "retrieved",
                                !.okEmbed = okEmbed, !.okQuery = okQuery,
                                !.docs = got.docs, !.metas = got.metas,
                                !.raised = got.raised]
    /\ UNCHANGED <<ingestVars, chunker, truncator>>

\* `if not docs: return ""`; else the context and the prompt are built.
Assemble ==
    /\ rag.pc = "retrieved"
    /\ rag' = IF NoDocs(rag.docs)
              THEN [rag EXCEPT !.pc = "returned", !.answer = <<>>]
              ELSE [rag EXCEPT !.pc = "chat",
                               !.context = truncate_context(rag.docs, MAX_CONTEXT_CHARS)]
    /\ UNCHANGED <<ingestVars, chunker, truncator>>

\* client.chat(...) with the one user message; the reply is stripped, and ""
\* is returned when the call (or the reading of its reply) raises.
Chat ==
    /\ rag.pc = "chat"
    /\ \E ok \in BOOLEAN, reply \in Replies :
         rag' = [rag EXCEPT !.pc = "returned",
                            !.chats = Append(@, <<Prompt(rag.context, rag.query)>>),
                            !.okChat = ok,
                            !.reply = IF ok THEN reply ELSE <<>>,
                            !.answer = IF ok THEN Strip(reply) ELSE <<>>]
    /\ UNCHANGED <<ingestVars, chunker, truncator>>

\* ask_my_docs has returned: the loop reads the next question.
Answered ==
    /\ rag.pc = "returned"
    /\ rag' = RagIdle(rag.index)
    /\ UNCHANGED <<ingestVars, chunker, truncator>>

\* The query program over a collection that ingest.py has filled or not.
InitRag ==
    /\ fs = [d \in Docs |-> NoFile]
    /\ InitIngest
    /\ chunker = ChunkerOff
    /\ truncator = TruncatorOff
    /\ \E index \in Indexes : rag = RagIdle(index)

NextRag == (\E q \in Queries : Ask(q)) \/ Retrieve \/ Assemble \/ Chat \/ Answered

SpecRag == InitRag /\ [][NextRag]_vars

\* ------------------------------------------------------- claims: ingestion

\* The ids of the chunks of process p's document below index n.
IdsBelow(p, n) == {DocId(doc[p], i) : i \in 0..(n - 1)}

\* C1 as stated: a call that repeats a returned call on the same document,
\* the file unchanged since that call began, adds no entry to the index and
\* does not write the state store.
C1_RepeatIsNoOp ==
    \A p \in Procs :
      rep[p] # "none" => added[p] = {} /\ "save" \notin called[p]

\* C1 as amended: a call that repeats a call which returned at the staleness
\* check or after recording the timestamp, the file unchanged since that call
\* began, adds no entry, does not write the state store and returns at the
\* staleness check.  (After a call that returned on an empty text the
\* repeat extracts again and may add entries and record the timestamp.)
C1_RepeatAfterRecordedIsNoOp ==
    \A p \in Procs :
      rep[p] \in {"skipped", "ingested"} =>
        /\ added[p] = {}
        /\ "save" \notin called[p]
        /\ pc[p] \in Returned => pc[p] = "skipped"

\* The repeat of a call that recorded the timestamp has returned at the
\* staleness check.
C1_Witness == rep["w1"] = "ingested" /\ pc["w1"] = "skipped"

\* C2: past the staleness check, the call was skipped if and only if the
\* file's timestamp is not strictly greater than the recorded one (no record:
\* never ingested); a skipped call has called nothing (no extraction, OCR,
\* embedding, index call, state write) and left index and state file alone.
C2_StalenessCheck ==
    \A p \in Procs :
      pc[p] \in {"skipped", "ocr", "extract", "embed", "get", "add", "empty"} =>
        LET newer == \/ doc[p] \notin DOMAIN state[p]
                     \/ mtime[p] > state[p][doc[p]]
        IN  /\ pc[p] = "skipped" <=> ~newer
            /\ pc[p] = "skipped" =>
                 /\ called[p] = {}
                 /\ added[p] = {}
                 /\ stateFile = [valid |-> TRUE, data |-> state[p]]

\* C3 as stated: no embedding call and no add is issued for a chunk whose id
\* is in the index when the call is issued.
C3_NoEmbedNoAddForPresent ==
    \A p \in Procs :
      lastCall[p].op \in {"embed", "add"} => ~lastCall[p].existed

\* C3 as amended: no add is issued for a chunk whose id the existence check
\* (collection.get) found in the index; the embedding call of a chunk is
\* issued before its existence check, whatever the check then finds.
C3_NoAddForFound ==
    \A p \in Procs :
      /\ lastCall[p].op = "add" => ~lastCall[p].found
      /\ pc[p] \in {"get", "add"} =>
           /\ lastCall[p].op = "embed"
           /\ lastCall[p].id = DocId(doc[p], idx[p])

\* A chunk whose id was in the index has been embedded, found and skipped
\* without an add.
C3_Witness ==
    /\ pc["w1"] = "embed"
    /\ lastCall["w1"].op = "embed"
    /\ lastCall["w1"].existed
    /\ found["w1"]
    /\ idx["w1"] = lastCall["w1"].id[2] + 1
    /\ added["w1"] = {}

\* C4: with two invocations on the same document interleaved, no add is
\* issued for an id that is in the index, and when both have recorded the
\* timestamp with every embedding succeeding the index holds the document's
\* chunks once and the state store its timestamp, as after one invocation.
C4_ConcurrentSameDocSafe ==
    /\ \A p \in Procs : lastCall[p].op = "add" => ~lastCall[p].existed
    /\ (\A p \in Procs : pc[p] = "ingested" /\ doc[p] = "a" /\ failed[p] = {}) =>
         /\ stateFile = [valid |-> TRUE,
                         data |-> Put(EmptyMap, "a", fs["a"].mtime)]
         /\ \A p \in Procs : DOMAIN collection = IdsBelow(p, Len(chunks[p]))

\* C5: whenever no save_state is in progress (so also after a crash during
\* save_state and the restart), load_state succeeds and returns every record
\* that was committed before.
C5_CommittedStateSurvivesCrash ==
    \A d \in DOMAIN committed :
      (\A p \in Procs : pc[p] # "dump") =>
        /\ stateFile.valid
        /\ Get(stateFile.data, d, 0) = committed[d]

\* C6: once the text extracted (after the OCR fallback) is empty, the call
\* makes no embedding call, adds no entry and leaves the state store as it
\* loaded it, so that the staleness check does not skip the document; the
\* repeat of a call that returned on an empty text is not skipped.
C6_EmptyTextAborts ==
    \A p \in Procs :
      /\ ("extract" \in called[p] /\ text[p] = <<>>) =>
           /\ "embed" \notin called[p]
           /\ added[p] = {}
           /\ "save" \notin called[p]
           /\ stateFile = [valid |-> TRUE, data |-> state[p]]
           /\ ~Stale(stateFile.data, doc[p], mtime[p])
      /\ rep[p] = "empty" => pc[p] # "skipped"

\* The repeat of a call that returned on an empty text has extracted again.
C6_Witness == rep["w1"] = "empty" /\ "extract" \in called["w1"]

\* C7: in the loop and after it, every chunk passed whose embedding failed
\* was not added and every other chunk passed is in the index; at the end
\* all chunks are passed and the timestamp is recorded, so that the
\* unchanged document is stale for a later call (no retry of failed chunks).
C7_EmbeddingFailureSkipsChunkOnly ==
    \A p \in Procs :
      /\ pc[p] \in {"embed", "get", "add", "dump", "ingested"} =>
           \A i \in 0..(idx[p] - 1) :
             IF i \in failed[p]
             THEN DocId(doc[p], i) \notin added[p]
             ELSE DocId(doc[p], i) \in DOMAIN collection
      /\ pc[p] = "ingested" =>
           /\ idx[p] = Len(chunks[p])
           /\ stateFile.valid
           /\ Get(stateFile.data, doc[p], 0) = mtime[p]
           /\ ~dirty[p] => Stale(stateFile.data, doc[p], fs[doc[p]].mtime)

\* A call has recorded the timestamp after the embedding of chunk 0 failed:
\* chunk 1 was added, chunk 0 is not in the index.
C7_Witness ==
    /\ pc["w1"] = "ingested"
    /\ failed["w1"] = {0}
    /\ DocId("a", 1) \in added["w1"]
    /\ DocId("a", 0) \notin DOMAIN collection

\* C8: no failure during the ingestion of a document leaves the event
\* handler (which would end the observer thread and with it the handling of
\* every later event).
C8_FailuresContained == \A p \in Procs : pc[p] # "raised"

\* ---------------------------------------------------- claims: the chunker

\* The character positions of the k-th window of the running chunk_text call.
SpanPositions(k) == (chunker.spans[k][1] + 1)..chunker.spans[k][2]

\* How many characters the k-th window shares with the one before it.
Shared(k) == Cardinality(SpanPositions(k - 1) \cap SpanPositions(k))

ProperParams == chunker.overlap < chunker.size

C9_ChunksWithinSize ==
    ProperParams =>
      \A k \in 1..Len(chunker.chunks) :
        LET c == chunker.chunks[k] IN
          /\ c # <<>>
          /\ c[1] \notin Whitespace
          /\ c[Len(c)] \notin Whitespace
          /\ Len(c) <= chunker.size

\* C9: for overlap < size, chunk_text terminates and every emitted chunk is
\* non-empty, whitespace-trimmed and of length <= size; for overlap >= size
\* the call never returns on a non-empty text.
C9_ChunkerTerminatesWithinSize ==
    /\ []C9_ChunksWithinSize
    /\ (ProperParams ~> chunker.pc = "done")
    /\ [](~ProperParams /\ chunker.text # <<>> => chunker.pc # "done")

\* A call with overlap < size has returned two or more chunks after a window
\* that was trimmed and one that was dropped as empty.
C9_Witness ==
    /\ chunker.pc = "done"
    /\ ProperParams
    /\ Len(chunker.chunks) >= 2
    /\ Len(chunker.spans) > Len(chunker.chunks)
    /\ \E k \in 1..Len(chunker.chunks) : Len(chunker.chunks[k]) < chunker.size

\* C10 as stated: for overlap < size, every window after the first starts
\* `overlap` characters before the end of the previous window's span, the two
\* spans sharing exactly `overlap` characters.
C10_OverlapExact ==
    ProperParams =>
      \A k \in 2..Len(chunker.spans) :
        /\ chunker.spans[k][1] = chunker.spans[k - 1][2] - chunker.overlap
        /\ Shared(k) = chunker.overlap

\* C10 as amended: for overlap < size, every window after the first starts
\* size - overlap characters after the start of the previous one; the two spans
\* share exactly `overlap` characters when the previous window is full-length,
\* and fewer (the whole of the later window) when the previous window was cut
\* short by the end of the text.
C10_OverlapWhenFull ==
    ProperParams =>
      \A k \in 2..Len(chunker.spans) :
        LET before == chunker.spans[k - 1]
            full   == before[2] - before[1] = chunker.size
        IN  /\ chunker.spans[k][1] = before[1] + chunker.size - chunker.overlap
            /\ full => Shared(k) = chunker.overlap
            /\ ~full => /\ Shared(k) < chunker.overlap
                         /\ Shared(k) = chunker.spans[k][2] - chunker.spans[k][1]

\* A call has returned after three windows or more, one of them following a
\* full-length window and one following a window cut short by the text's end.
C10_Witness ==
    /\ chunker.pc = "done"
    /\ ProperParams
    /\ chunker.overlap >= 1
    /\ \E j, k \in 2..Len(chunker.spans) :
         /\ chunker.spans[j - 1][2] - chunker.spans[j - 1][1] = chunker.size
         /\ chunker.spans[k - 1][2] - chunker.spans[k - 1][1] < chunker.size

\* ------------------------------------------- claims: index contents (C11)

\* The ids of the entries of an index that belong to file d.
EntriesOf(index, d) == {id \in DOMAIN index : index[id].filename = d}

\* C11: when a call on a document that had no entry in the index has recorded
\* the timestamp with every embedding succeeding, the document's entries are
\* exactly <<stem, 0>> .. <<stem, n-1>> for the n chunks emitted, entry i
\* holding chunk i, the filename and chunk_index i; a 900-character text gives
\* two chunks of 800 and 200 characters and the two entries 0 and 1.
C11_FirstIngestEntries ==
    \A p \in Procs :
      (/\ pc[p] = "ingested"
       /\ failed[p] = {}
       /\ EntriesOf(atStart[p].index, doc[p]) = {}) =>
        LET n == Len(chunks[p]) IN
          /\ EntriesOf(collection, doc[p]) = {<<doc[p], i>> : i \in 0..(n - 1)}
          /\ \A i \in 0..(n - 1) :
               collection[<<doc[p], i>>] =
                 [document |-> chunks[p][i + 1], filename |-> doc[p],
                  chunk_index |-> i]
          /\ Len(text[p]) = 900 =>
               /\ n = 2
               /\ Len(chunks[p][1]) = 800
               /\ Len(chunks[p][2]) = 200

\* A first ingest of a 900-character document has recorded the timestamp and
\* the index holds its two entries.
C11_Witness ==
    /\ pc["w1"] = "ingested"
    /\ failed["w1"] = {}
    /\ atStart["w1"].index = EmptyMap
    /\ Len(text["w1"]) = 900
    /\ Cardinality(DOMAIN collection) = 2

\* ------------------------------------------------ claims: truncation (C12)

\* The length of the context after the first k chunks, separators included.
RECURSIVE TakenLen(_)
TakenLen(k) ==
    IF k = 0 THEN 0 ELSE TakenLen(k - 1) + Len(truncator.chunks[k]) + 2

\* The k-th chunk does not fit after the k-1 before it.
Overflows(k) == TakenLen(k - 1) + Len(truncator.chunks[k]) > truncator.max_chars

\* The number of chunks that precede the first chunk that does not fit.
Fitting ==
    LET over == {k \in 1..Len(truncator.chunks) : Overflows(k)} IN
      IF over = {} THEN Len(truncator.chunks)
      ELSE (CHOOSE k \in over : \A l \in over : k <= l) - 1

\* The first k chunks, whole and in order, joined by a blank line.
RECURSIVE Joined(_)
Joined(k) ==
    IF k = 0 THEN <<>>
    ELSE IF k = 1 THEN truncator.chunks[1]
    ELSE Joined(k - 1) \o Separator \o truncator.chunks[k]

IsTrimmed(c) == c # <<>> /\ c[1] \notin Whitespace /\ c[Len(c)] \notin Whitespace

\* C12 as stated: the string returned is at most max_chars long and is
\* exactly the chunks that precede the first chunk that does not fit, whole,
\* in order, joined by a blank line.
C12_TruncateExactPrefix ==
    truncator.pc = "done" =>
      /\ Len(truncator.result) <= truncator.max_chars
      /\ truncator.result = Joined(Fitting)

\* C12 as amended: the string returned is at most max_chars long and is the
\* chunks that precede the first chunk that does not fit, in order, joined by
\* a blank line, with the whitespace at the two ends of the whole removed; it
\* is exactly that join when those chunks are non-empty and trimmed.
C12_TruncateStrippedPrefix ==
    truncator.pc = "done" =>
      /\ Len(truncator.result) <= truncator.max_chars
      /\ truncator.taken = Fitting
      /\ truncator.result = Strip(Joined(Fitting))
      /\ (\A k \in 1..Fitting : IsTrimmed(truncator.chunks[k])) =>
           truncator.result = Joined(Fitting)

\* A call has returned the first chunk alone while the second, shorter than
\* the first, did not fit after it.
C12_Witness ==
    /\ truncator.pc = "done"
    /\ Len(truncator.chunks) = 2
    /\ IsTrimmed(truncator.chunks[1])
    /\ Len(truncator.chunks[2]) < Len(truncator.chunks[1])
    /\ truncator.result = truncator.chunks[1]
    /\ Len(truncator.chunks[2]) <= truncator.max_chars

\* ------------------------------------------ claims: the query side (C13, C14)

\* C13: retrieve_context never raises; it returns two empty sequences when
\* the index is empty, the embedding call failed or the index query failed,
\* and otherwise min(top_k, count) texts with as many metadata, the i-th text
\* and the i-th metadata being those of one entry of the index.
C13_RetrievalNeverRaises ==
    /\ rag.pc # "raised"
    /\ ~rag.raised
    /\ rag.pc = "retrieved" =>
         IF rag.index = EmptyMap \/ ~rag.okEmbed \/ ~rag.okQuery
         THEN rag.docs = <<>> /\ rag.metas = <<>>
         ELSE /\ Len(rag.docs) = Min(TOP_K, Cardinality(DOMAIN rag.index))
              /\ Len(rag.metas) = Len(rag.docs)
              /\ \A i \in 1..Len(rag.docs) :
                   LET id == <<rag.metas[i].filename, rag.metas[i].chunk_index>> IN
                     /\ id \in DOMAIN rag.index
                     /\ rag.index[id].document = rag.docs[i]

\* Retrieval has returned nothing on a filled index whose query failed.
C13_Witness ==
    /\ rag.pc = "retrieved"
    /\ rag.index # EmptyMap
    /\ rag.okEmbed /\ ~rag.okQuery
    /\ rag.docs = <<>>

\* All the texts retrieved, in order, joined by a blank line.
RECURSIVE JoinAll(_)
JoinAll(docs) ==
    IF docs = <<>> THEN <<>>
    ELSE IF Len(docs) = 1 THEN docs[1]
    ELSE JoinAll(SubSeq(docs, 1, Len(docs) - 1)) \o Separator \o docs[Len(docs)]

\* C14: ask_my_docs never raises; when retrieval gave no chunks it returns ""
\* and has made no chat call; otherwise it has made exactly one chat call, of
\* one message holding the assembled context (here every retrieved chunk: they
\* fit the budget) and the question, and it returns the reply trimmed, or ""
\* when the chat call failed.
C14_AnswerSentinel ==
    /\ rag.pc # "raised"
    /\ rag.pc = "returned" =>
         IF rag.docs = <<>>
         THEN rag.answer = <<>> /\ rag.chats = <<>>
         ELSE /\ Len(rag.chats) = 1
              /\ Len(rag.chats[1]) = 1
              /\ rag.chats[1][1][2] = JoinAll(rag.docs)
              /\ rag.chats[1][1][4] = rag.query
              /\ rag.answer = IF rag.okChat THEN Strip(rag.reply) ELSE <<>>
              /\ rag.okChat => IsTrimmed(rag.answer) \/ rag.answer = <<>>

\* A question whose retrieval gave three chunks has been answered with the
\* reply trimmed of its surrounding whitespace.
C14_Witness ==
    /\ rag.pc = "returned"
    /\ Len(rag.docs) = 3
    /\ rag.okChat
    /\ rag.answer = <<"y", "e", "s">>
    /\ rag.reply # rag.answer

\* --------------------------------------- claims: two-tier extraction (C15)

\* C15 as stated: OCR is invoked if and only if the direct extraction of the
\* original gave nothing; after an OCR that succeeded the text used is
\* extracted from the rendition; after an OCR that failed nothing is raised,
\* the text used is empty and the call returns at the empty-text test.
C15_OcrFailureLeavesEmptyText ==
    \A p \in Procs :
      /\ pc[p] = "extract" => ("ocr" \in called[p] <=> text[p] = <<>>)
      /\ ("extract" \in called[p] /\ readable[p] = "ocr") =>
           text[p] \in {ExtractRendition(ocrFile[doc[p]], ok) : ok \in BOOLEAN}
      /\ ("extract" \in called[p] /\ "ocr" \in called[p] /\ readable[p] = "orig") =>
           text[p] = <<>> /\ pc[p] = "empty"

\* C15 as amended: OCR is invoked if and only if the direct extraction of the
\* original gave nothing; after an OCR that succeeded the text used is
\* extracted from the rendition; otherwise (OCR failed or not needed) nothing
\* is raised and the text used is a second extraction from the original file,
\* which is empty or the file's text layer; a call whose text is empty
\* returns at the empty-text test.
C15_TwoTierExtraction ==
    \A p \in Procs :
      /\ pc[p] = "extract" => ("ocr" \in called[p] <=> text[p] = <<>>)
      /\ ("extract" \in called[p] /\ readable[p] = "ocr") =>
           text[p] \in {ExtractRendition(ocrFile[doc[p]], ok) : ok \in BOOLEAN}
      /\ ("extract" \in called[p] /\ readable[p] = "orig" /\ ~dirty[p]) =>
           text[p] \in {ExtractText(fs[doc[p]], ok) : ok \in BOOLEAN}
      /\ "extract" \in called[p] =>
           /\ pc[p] # "raised" \/ "get" \in called[p]
           /\ text[p] = <<>> <=> pc[p] = "empty"

\* After a direct extraction that gave nothing and an OCR that failed, the
\* second extraction from the unchanged original gave its text and the call
\* went on to the chunks.
C15_Witness ==
    /\ "ocr" \in called["w1"]
    /\ readable["w1"] = "orig"
    /\ ~dirty["w1"]
    /\ text["w1"] # <<>>
    /\ pc["w1"] = "embed"

\* ------------------------------------ claims: interrupted runs (C16)

\* The chunks of process p's document that were not in the index when its
\* call began.
Missing(p) == IdsBelow(p, Len(chunks[p])) \ DOMAIN atStart[p].index

\* The state record is written only after the last chunk, and a call that is
\* in the chunks (or was when a collection call raised) has left the state
\* store as it was.
StateAfterChunks(p) ==
    /\ "save" \in called[p] => idx[p] = Len(chunks[p])
    /\ InChunks(p) => stateFile = [valid |-> TRUE, data |-> atStart[p].state]

\* The call that follows a run cut off in the chunks, the file unchanged, is
\* not skipped and issues no add for an id that is stored.
RetryNotSkipped(p) ==
    rep[p] = "interrupted" =>
      /\ pc[p] # "skipped"
      /\ added[p] \cap DOMAIN atStart[p].index = {}
      /\ lastCall[p].op = "add" => ~lastCall[p].existed

\* C16 as stated: the state record is written only after the last chunk; a
\* run cut off in the chunks has not advanced the state; the call that
\* follows it on the unchanged document is not skipped, adds exactly the
\* chunks that were missing, none of those stored, and records the timestamp.
C16_RetryCompletes ==
    \A p \in Procs :
      /\ StateAfterChunks(p)
      /\ RetryNotSkipped(p)
      /\ rep[p] = "interrupted" =>
           /\ pc[p] \in Returned => pc[p] = "ingested"
           /\ pc[p] = "ingested" =>
                /\ added[p] = Missing(p)
                /\ Get(stateFile.data, doc[p], 0) = mtime[p]

\* C16 as amended: the state record is written only after the last chunk; a
\* run cut off in the chunks has not advanced the state; the call that
\* follows it on the unchanged document is not skipped and adds none of the
\* stored ids again; when it reaches its end it has recorded the timestamp,
\* and has added exactly the missing chunks whose embedding succeeded (all of
\* them when every embedding succeeded).
C16_RetryCompletesWhatEmbeds ==
    \A p \in Procs :
      /\ StateAfterChunks(p)
      /\ RetryNotSkipped(p)
      /\ (rep[p] = "interrupted" /\ pc[p] = "ingested") =>
           /\ added[p] = {id \in Missing(p) : id[2] \notin failed[p]}
           /\ failed[p] = {} => added[p] = Missing(p)
           /\ stateFile.valid
           /\ Get(stateFile.data, doc[p], 0) = mtime[p]

\* The call that followed a run cut off after its first chunk has added the
\* second chunk alone and recorded the timestamp.
C16_Witness ==
    /\ rep["w1"] = "interrupted"
    /\ pc["w1"] = "ingested"
    /\ failed["w1"] = {}
    /\ DOMAIN atStart["w1"].index = {DocId("a", 0)}
    /\ added["w1"] = {DocId("a", 1)}

\* ------------------------------------ claims: changed documents (C17)

\* C17: when a call on a document that has a state record (it was ingested
\* before) and a newer timestamp has recorded the new timestamp with every
\* embedding succeeding, entry i of the document holds chunk i of the text
\* the call extracted, for every chunk of that text.
C17_ChangedDocumentUpdated ==
    \A p \in Procs :
      (/\ pc[p] = "ingested"
       /\ failed[p] = {}
       /\ doc[p] \in DOMAIN atStart[p].state
       /\ mtime[p] > atStart[p].state[doc[p]]) =>
        \A i \in 0..(Len(chunks[p]) - 1) :
          /\ DocId(doc[p], i) \in DOMAIN collection
          /\ collection[DocId(doc[p], i)].document = chunks[p][i + 1]

\* ------------------------------ claims: state updates of two writers (C18)

\* C18: when an invocation on document a and one on document b, interleaved
\* in any way, have both recorded their timestamp, the state store holds the
\* timestamp of a and the timestamp of b.
C18_NoLostStateUpdate ==
    (pc["w1"] = "ingested" /\ pc["w2"] = "ingested") =>
      /\ stateFile.valid
      /\ \A p \in Procs : Get(stateFile.data, doc[p], 0) = mtime[p]

\* ------------------------------------ claims: frame of a call (C19)

\* C19: with calls made one at a time, while a call on document D runs and
\* when it has ended the entries of the other documents are those the index
\* held when the call began, no more, no fewer and unchanged; when it has
\* ended (returned or raised) the state records of the other documents are
\* those of the beginning, and no document's recorded timestamp is gone or
\* lower than it was.
C19_FrameAndMonotone ==
    \A p \in Procs :
      /\ pc[p] # "idle" =>
           \A id \in DOMAIN collection \cup DOMAIN atStart[p].index :
             id[1] # doc[p] =>
               /\ id \in DOMAIN collection \cap DOMAIN atStart[p].index
               /\ collection[id] = atStart[p].index[id]
      /\ pc[p] \in Returned \cup {"raised"} =>
           /\ stateFile.valid
           /\ \A d \in Docs \ {doc[p]} :
                /\ d \in DOMAIN stateFile.data <=> d \in DOMAIN atStart[p].state
                /\ Get(stateFile.data, d, 0) = Get(atStart[p].state, d, 0)
           /\ \A d \in DOMAIN atStart[p].state :
                /\ d \in DOMAIN stateFile.data
                /\ stateFile.data[d] >= atStart[p].state[d]

\* A call on a has recorded a newer timestamp for a while b was recorded and
\* in the index.
C19_Witness ==
    /\ pc["w1"] = "ingested"
    /\ doc["w1"] = "a"
    /\ DOMAIN atStart["w1"].state = {"a", "b"}
    /\ stateFile.data["a"] > atStart["w1"].state["a"]
    /\ EntriesOf(collection, "b") # {}

\* ------------------------------------ claims: chunker coverage (C20)

\* The text of the k-th window of the running chunk_text call.
Window(k) == Slice(chunker.text, chunker.spans[k][1], chunker.spans[k][2])

IsInk(c) == c \notin Whitespace

IsChunk(w) == w # <<>>

\* The windows of the call, trimmed, in order.
Trimmed == [k \in 1..Len(chunker.spans) |-> Strip(Window(k))]

\* C20: when a call with 0 <= overlap < size has returned, its windows start
\* at 0, size - overlap, 2 * (size - overlap), ..., every character position
\* of the text lies in a window, every window keeps all its non-whitespace
\* characters when trimmed, and the chunks emitted are the non-empty trimmed
\* windows in the order of the text.
C20_ChunkerCoverage ==
    (chunker.pc = "done" /\ ProperParams) =>
      /\ \A k \in 1..Len(chunker.spans) :
           /\ chunker.spans[k][1] = (k - 1) * (chunker.size - chunker.overlap)
           /\ SelectSeq(Trimmed[k], IsInk) = SelectSeq(Window(k), IsInk)
      /\ \A pos \in 1..Len(chunker.text) :
           \E k \in 1..Len(chunker.spans) : pos \in SpanPositions(k)
      /\ chunker.chunks = SelectSeq(Trimmed, IsChunk)

\* A call with overlap >= 1 has returned after three windows or more, one of
\* them all whitespace and dropped, on a text that begins with whitespace.
C20_Witness ==
    /\ chunker.pc = "done"
    /\ ProperParams
    /\ chunker.overlap >= 1
    /\ Len(chunker.spans) >= 3
    /\ Len(chunker.chunks) < Len(chunker.spans)
    /\ chunker.chunks # <<>>
    /\ chunker.text[1] \in Whitespace

====
